---- MODULE Spec2Model ----
(***************************************************************************)
(* Night-Feed: the staged pipeline of the orchestrator (run_service,       *)
(* validate_file_exists, run_pipeline, notifications, execution log) and   *)
(* the deduplicating stores of the collector and of the review monitor.    *)
(***************************************************************************)
EXTENDS Integers, Sequences, FiniteSets, TLC

\* ------------------------------------------------------------------ bounds
\* number of run_pipeline invocations followed on one calendar day
MaxRuns == 2
\* wall-clock duration (s) of a stage attempt that ends by itself
AttemptSeconds == 1
\* largest max_retries the stand-alone run_service harness is called with
MaxRetriesBound == 3
\* number of stage attempts that fail, over all the runs followed
MaxFailedAttempts == 3

\* longest snapshot (reviews, discussions, feed entries) given to a fetcher
MaxSnapshot == 2
\* latest time (s) of the store clock
MaxClock == 2
MaxDay == 1
MaxRank == 3
MaxCycles == 3
MaxInterval == 2
MaxCheck == 2
\* number of retention periods the runs of the collector are followed over
MaxWaits == 2

\* ------------------------------------------------------- program constants
\* run_service(service_name, max_retries=3)
DefaultMaxRetries == 3
\* subprocess.run(..., timeout=600)
AttemptTimeout == 600

None == "None"

Stages == <<"collector", "writer", "publisher">>
Services == {"collector", "writer", "publisher"}

\* the files run_pipeline looks at; "episode" and "script" are the files
\* keyed by today's date, "signals" and "feed" are fixed paths
Files == {"signals", "script", "episode", "feed"}
FileStates == {"missing", "empty", "nonempty"}

\* the files a stage process writes (collector.py, writer.py, publisher.py)
Outputs(svc) ==
    CASE svc = "collector" -> {"signals"}
      [] svc = "writer"    -> {"script"}
      [] svc = "publisher" -> {"episode", "feed"}

Durations == {AttemptSeconds}

RECURSIVE Pow2(_)
Pow2(n) == IF n = 0 THEN 1 ELSE 2 * Pow2(n - 1)

VARIABLES
    files,          \* file system as the orchestrator sees it
    state,          \* position of run_pipeline (Pipeline Sequencer state)
    skipped,        \* the current run returned from the entry guard
    runs,           \* number of run_pipeline invocations so far
    now,            \* time.time(), whole seconds since the current run began
    pipeline_start, \* local of run_pipeline
    executions,     \* rows of the executions table, in insertion order
    exec_base,      \* Len(executions) when the current run started
    notify_calls,   \* calls of notify_success / notify_failure
    notify_base,    \* Len(notify_calls) when the current run started
    posted,         \* messages handed to the webhook by requests.post
    notify_enabled, \* DISCORD_WEBHOOK_URL set and ENABLE_NOTIFICATIONS true
    rs_pc,          \* position of run_service
    service_name,   \* argument of run_service
    max_retries,    \* argument of run_service
    attempt,        \* loop variable of run_service
    result,         \* value returned by run_service
    running,        \* services whose subprocess is in flight
    attempts,       \* subprocess.run calls per service in the current run
    failures,       \* failed attempts of the current run_service call
    faults,         \* failed attempts so far, over all runs
    last_failure,   \* how the latest failed attempt of run_service failed
    fail_end,       \* time.time() when the latest failed attempt ended
    start_time,     \* local of run_service: when the current attempt began
    program,        \* the program whose store operations are followed
    rss_seen,       \* rows of table rss_seen (signals_history.db)
    reviews,        \* rows of table reviews (reviews.db)
    discussions,    \* rows of table discussions (reviews.db)
    clock,          \* int(datetime.now().timestamp()) of the store programs
    last_fetch,     \* the latest fetcher call: fetcher and snapshot
    fetch_result,   \* what the latest fetcher call returned
    repeated,       \* the call before it had the same fetcher and snapshot
    mark_count,     \* mark_rss_item_seen calls per URL (counted up to 2)
    first_mark,     \* arguments of the first mark_rss_item_seen call per URL
    last_mark,      \* the arguments and time of the latest mark_rss_item_seen
    prior_empty,    \* the fetcher's table had no row when the latest call began
    prior_ids,      \* the identities in the fetcher's table at that time
    insert_faults,  \* identities of the items whose INSERT raises an exception
    db_error,       \* the latest store statement raised an error
    steam_rankings, \* rows of table steam_rankings (signals_history.db)
    today,          \* the day of datetime.now(), counted in days
    current_in,     \* current_rankings as passed to calculate_rank_changes
    previous_in,    \* previous_rankings as passed to calculate_rank_changes
    top_sellers,    \* steam_top_sellers as the collector last computed it
    computed,       \* calculate_rank_changes has returned top_sellers
    run_info,       \* the day of the latest collector run, the dates stored then
    enable_ai_summary,    \* ENABLE_AI_SUMMARY
    openai_api_key,       \* OPENAI_API_KEY is set
    interval_hours,       \* AI_SUMMARY_INTERVAL_HOURS
    check_hours,          \* CHECK_EVERY_MINUTES, in hours
    gate_clock,           \* int(time.time()) of the monitor
    first_loop_iteration, \* global of main.py
    last_summary_time,    \* global of main.py
    metadata,             \* value of key last_summary_timestamp in table metadata
    cycle,                \* iterations of the main loop so far
    gate,                 \* the latest call of should_generate_summary
    summary_at,           \* when the latest cycle produced a summary
    forced_cycles,        \* the cycles in which the force flag made the gate true
    force_failed,         \* the forced cycle produced no summary
    bundle,         \* /data/signals.json: the URLs of its rss_items, and
                    \* whether the latest run of the collector exited 0
    bundled,       \* the URLs ever written into signals.json
    reported_at,    \* per URL, when fetch_rss_feed last returned it as new
    regap,          \* per URL returned as new again: the days since the
                    \* time it had been returned before
    absent,         \* the URLs that a feed has lacked since they were returned
    run_at,         \* when the collector last ran
    feed,           \* the entries of the feed two fetchers read
    fetchers        \* per fetching process: its position in the loop of
                    \* fetch_rss_feed and the URLs it has appended to items

pvars == <<files, state, skipped, runs, now, pipeline_start, executions,
           exec_base, notify_calls, notify_base, posted, notify_enabled>>
pvars_but_state == <<files, skipped, runs, now, pipeline_start, executions,
                     exec_base, notify_calls, notify_base, posted,
                     notify_enabled>>
rvars == <<rs_pc, service_name, max_retries, attempt, result, running,
           attempts, failures, faults, last_failure, fail_end, start_time>>
svars == <<program, rss_seen, reviews, discussions, clock, last_fetch,
           fetch_result, repeated, mark_count, first_mark, last_mark,
           prior_empty, prior_ids, insert_faults, db_error>>
kvars == <<steam_rankings, today, current_in, previous_in, top_sellers,
           computed, run_info>>
gvars == <<enable_ai_summary, openai_api_key, interval_hours, check_hours,
           gate_clock, first_loop_iteration, last_summary_time, metadata,
           cycle, gate, summary_at, forced_cycles, force_failed>>
cvars == <<bundle, bundled, reported_at, regap, absent, run_at, feed,
           fetchers>>
\* the variables of the store programs
ovars == <<svars, kvars, gvars, cvars>>
vars == <<pvars, rvars, svars, kvars, gvars, cvars>>

NoResult == [success |-> FALSE, duration |-> 0, error |-> None]
ZeroCount == [s \in Services |-> 0]

\* ---------------------------------------------------------- log_execution
\* a log that writes over its latest record (UPDATE in place of INSERT)
log_execution_overwrite(log, stage, status, duration, error) ==
    LET record == [stage |-> stage, status |-> status,
                   duration |-> duration, error |-> error]
    IN  IF log = <<>> THEN <<record>>
        ELSE [log EXCEPT ![Len(log)] = record]

log_execution(log, stage, status, duration, error) ==
    Append(log, [stage |-> stage, status |-> status,
                 duration |-> duration, error |-> error])

\* --------------------------------------------------- validate_file_exists
\* a validation that accepts an empty file
validate_exists_only(fs, f) == fs[f] # "missing"

validate_file_exists(fs, f) ==
    IF fs[f] = "missing" THEN FALSE
    ELSE IF fs[f] = "empty" THEN FALSE
    ELSE TRUE

\* ================================================================= stores
\* identities and payloads the snapshots are built from
Urls == {"u1", "u2"}
Titles == {"t1", "t2"}
Sources == {"s1", "s2"}
ReviewIds == {"r1", "r2"}
DiscussionIds == {"d1", "d2"}
\* a missing or empty identity field (r.get(...) is falsy)
NoId == ""

\* fetch_rss_feed(source, max_items=50, ...)
MaxItems == 50
\* 'discussions': new_discussions_unpinned[:10]
MaxNotified == 10

MinOf(a, b) == IF a <= b THEN a ELSE b
Take(seq, n) == SubSeq(seq, 1, MinOf(n, Len(seq)))

\* sequences over S of length 0..n
RECURSIVE SeqsUpTo(_, _)
SeqsUpTo(S, n) ==
    IF n = 0 THEN {<<>>}
    ELSE LET shorter == SeqsUpTo(S, n - 1)
         IN  shorter \cup { Append(q, x) : q \in shorter, x \in S }

\* one sqlite INSERT into a table with primary key column key, under the
\* conflict clause of the statement (OR IGNORE, OR REPLACE, or none = ABORT)
Insert(table, row, key, clause) ==
    LET conflict == \E r \in table : r[key] = row[key]
    IN  IF ~conflict
        THEN [table |-> table \cup {row}, error |-> FALSE]
        ELSE IF clause = "IGNORE"
        THEN [table |-> table, error |-> FALSE]
        ELSE IF clause = "REPLACE"
        THEN [table |-> {r \in table : r[key] # row[key]} \cup {row},
              error |-> FALSE]
        ELSE [table |-> table, error |-> TRUE]

\* ----------------------------------------------------- collector/utils/db.py
is_rss_item_new(table, url) == ~(\E r \in table : r.url = url)

\* a mark that overwrites an existing record
mark_rss_item_seen_replace(table, url, title, source, ts) ==
    Insert(table, [url |-> url, title |-> title, source |-> source,
                   first_seen |-> ts], "url", "REPLACE")

mark_rss_item_seen(table, url, title, source, ts) ==
    Insert(table, [url |-> url, title |-> title, source |-> source,
                   first_seen |-> ts], "url", "IGNORE")

\* --------------------------------------------- collector/sources/rss_feeds.py
\* the loop over feed.entries[:max_items]: entries without link and entries
\* already seen are skipped, the others are returned and marked seen
RECURSIVE FetchRssEntries(_, _, _, _, _)
FetchRssEntries(table, entries, name, ts, items) ==
    IF entries = <<>>
    THEN [table |-> table, items |-> items]
    ELSE LET entry == Head(entries)
         IN  IF entry.link = NoId
             THEN FetchRssEntries(table, Tail(entries), name, ts, items)
             ELSE IF ~is_rss_item_new(table, entry.link)
             THEN FetchRssEntries(table, Tail(entries), name, ts, items)
             ELSE FetchRssEntries(
                    mark_rss_item_seen(table, entry.link, entry.title,
                                       name, ts).table,
                    Tail(entries), name, ts,
                    Append(items, [source |-> name, title |-> entry.title,
                                   url |-> entry.link]))

\* fetch_rss_feed on the parsed feed; a feed that cannot be fetched gives []
fetch_rss_feed(table, ok, entries, name, ts) ==
    IF ~ok
    THEN [table |-> table, items |-> <<>>]
    ELSE FetchRssEntries(table, Take(entries, MaxItems), name, ts, <<>>)

\* ------------------------------------------------------------- app/main.py
\* the loop of insert_reviews / insert_discussions: INSERT OR IGNORE of every
\* item, each in a try of its own: an item whose insert raises is logged and
\* left out, and the loop goes on
RECURSIVE InsertRows(_, _, _)
InsertRows(table, rows, key) ==
    IF rows = <<>> THEN table
    ELSE IF Head(rows)[key] \in insert_faults
    THEN InsertRows(table, Tail(rows), key)
    ELSE InsertRows(Insert(table, Head(rows), key, "IGNORE").table,
                    Tail(rows), key)

RECURSIVE Filter(_, _)
\* the items of seq whose identity is set and not in the set existing
Filter(seq, existing) ==
    IF seq = <<>> THEN <<>>
    ELSE IF Head(seq).id # NoId /\ Head(seq).id \notin existing
         THEN <<Head(seq)>> \o Filter(Tail(seq), existing)
         ELSE Filter(Tail(seq), existing)

RECURSIVE CountIf(_, _)
\* number of items of seq whose flag equals b
CountIf(seq, b) ==
    IF seq = <<>> THEN 0
    ELSE (IF Head(seq).flag = b THEN 1 ELSE 0) + CountIf(Tail(seq), b)

RECURSIVE Unflagged(_)
\* the items of seq whose flag is not set
Unflagged(seq) ==
    IF seq = <<>> THEN <<>>
    ELSE IF ~Head(seq).flag THEN <<Head(seq)>> \o Unflagged(Tail(seq))
         ELSE Unflagged(Tail(seq))

\* a lookup that finds nothing, as after a failed SELECT
get_existing_ids_none(table, ids) == {}

\* get_existing_review_ids / get_existing_discussion_ids
get_existing_ids(table, ids) == { r.id : r \in table } \cap ids
\* the identities asked for: [r.get(id) for r in items if r.get(id)]
IdsOf(seq) == { seq[k].id : k \in DOMAIN seq } \ {NoId}

\* an insert_reviews that persists nothing
insert_nothing(table, new_reviews) == table

\* insert_reviews: INSERT OR IGNORE of every new review; a row holds the
\* identity and voted_up (flag)
insert_reviews(table, new_reviews) == InsertRows(table, new_reviews, "id")
\* insert_discussions: a row holds the identity and is_pinned (flag)
insert_discussions(table, new_discussions) ==
    InsertRows(table, new_discussions, "id")

\* a first-run test with the comparison the wrong way round
is_first_run_inverted(table) == Cardinality(table) # 0

\* is_first_run / is_first_run_discussions
is_first_run(table) == Cardinality(table) = 0

\* get_total_counts: (negative, positive)
get_total_counts(table) ==
    [negative |-> Cardinality({ r \in table : ~r.flag }),
     positive |-> Cardinality({ r \in table : r.flag })]

NoneResult == [none |-> TRUE]

\* fetch_and_process_reviews on the answer of the Steam API (flag = voted_up)
fetch_and_process_reviews(table, ok, snapshot) ==
    IF ~ok \/ snapshot = <<>>
    THEN [table |-> table, result |-> NoneResult]
    ELSE LET first_run == is_first_run(table)
             existing_ids == get_existing_ids(table, IdsOf(snapshot))
             new_reviews == Filter(snapshot, existing_ids)
         IN  IF new_reviews = <<>>
             THEN [table |-> table,
                   result |-> [none |-> FALSE,
                               new_positive |-> 0, new_negative |-> 0,
                               total_positive |-> get_total_counts(table).positive,
                               total_negative |-> get_total_counts(table).negative,
                               is_first_run |-> FALSE]]
             ELSE LET stored == insert_reviews(table, new_reviews)
                  IN  [table |-> stored,
                       result |-> [none |-> FALSE,
                                   new_positive |-> CountIf(new_reviews, TRUE),
                                   new_negative |-> CountIf(new_reviews, FALSE),
                                   total_positive |-> get_total_counts(stored).positive,
                                   total_negative |-> get_total_counts(stored).negative,
                                   is_first_run |-> first_run]]

\* fetch_and_process_discussions on the answer of fetch_discussions, which is
\* None when the page cannot be fetched (flag = is_pinned)
fetch_and_process_discussions(table, ok, snapshot) ==
    IF ~ok
    THEN [table |-> table, result |-> NoneResult]
    ELSE IF snapshot = <<>>
    THEN [table |-> table,
          result |-> [none |-> FALSE, new_count |-> 0, discussions |-> <<>>,
                      is_first_run |-> FALSE]]
    ELSE LET first_run == is_first_run(table)
             existing_ids == get_existing_ids(table, IdsOf(snapshot))
             new_discussions == Filter(snapshot, existing_ids)
             unpinned == Unflagged(new_discussions)
         IN  IF new_discussions = <<>>
             THEN [table |-> table,
                   result |-> [none |-> FALSE, new_count |-> 0,
                               discussions |-> <<>>, is_first_run |-> FALSE]]
             ELSE [table |-> insert_discussions(table, new_discussions),
                   result |-> [none |-> FALSE, new_count |-> Len(unpinned),
                               discussions |-> Take(unpinned, MaxNotified),
                               is_first_run |-> first_run]]

\* ------------------------------------------------------- store operations
\* what the external sources can answer
ReviewSnapshots ==
    SeqsUpTo([id : ReviewIds \cup {NoId}, flag : BOOLEAN], MaxSnapshot)
DiscussionSnapshots ==
    SeqsUpTo([id : DiscussionIds, flag : BOOLEAN], MaxSnapshot)
FeedSnapshots ==
    SeqsUpTo([link : Urls \cup {NoId}, title : Titles], MaxSnapshot)
\* an answer: the source was reachable (ok) and gave this snapshot
Answers(snapshots) ==
    { [ok |-> TRUE, snapshot |-> q] : q \in snapshots }
      \cup {[ok |-> FALSE, snapshot |-> <<>>]}

\* the name of the configured feed
FeedName == "s1"
NoFetch == [fetcher |-> "none", source |-> NoId, ok |-> TRUE,
            snapshot |-> <<>>]
NoMark == [title |-> NoId, source |-> NoId, first_seen |-> 0]
NoLastMark == [url |-> NoId, title |-> NoId, source |-> NoId,
               first_seen |-> 0]
Saturate(n) == MinOf(n + 1, 2)

\* the monitor before the first iteration of its main loop
\* None of last_summary_time; the value of a key that metadata does not hold
NoTime == -1
NoValue == <<>>
NoGate == [ret |-> FALSE, forced |-> FALSE, flag |-> FALSE,
           memory |-> NoTime, read |-> NoValue, now |-> 0]
GateRest ==
    /\ gate_clock = 0
    /\ first_loop_iteration = TRUE
    /\ last_summary_time = NoTime
    /\ cycle = 0
    /\ gate = NoGate
    /\ summary_at = NoTime
    /\ forced_cycles = {}
    /\ force_failed = FALSE
GateIdle ==
    /\ GateRest
    /\ enable_ai_summary = FALSE
    /\ openai_api_key = FALSE
    /\ interval_hours = 0
    /\ check_hours = 1
    /\ metadata = NoValue

\* the rankings before the first run of the collector
NoRun == [day |-> 0, dates |-> {}]
RankRest ==
    /\ steam_rankings = {}
    /\ today = 0
    /\ top_sellers = <<>>
    /\ computed = FALSE
    /\ run_info = NoRun
RankIdle ==
    /\ RankRest
    /\ current_in = <<>>
    /\ previous_in = <<>>
\* the collector before its first run, and no fetcher started
Procs == {"p1", "p2"}
NoBundle == [ok |-> TRUE, urls |-> {}]
NoFetcher == [k |-> 1, marking |-> FALSE, items |-> <<>>]
CollectorRest ==
    /\ bundle = NoBundle
    /\ bundled = {}
    /\ reported_at = [u \in Urls |-> NoTime]
    /\ regap = [u \in Urls |-> NoTime]
    /\ absent = {}
    /\ run_at = NoTime
    /\ feed = <<>>
    /\ fetchers = [p \in Procs |-> NoFetcher]
TablesRest ==
    /\ rss_seen = {}
    /\ reviews = {}
    /\ discussions = {}
    /\ clock = 0
    /\ last_fetch = NoFetch
    /\ fetch_result = NoneResult
    /\ repeated = FALSE
    /\ mark_count = [u \in Urls |-> 0]
    /\ first_mark = [u \in Urls |-> NoMark]
    /\ last_mark = NoLastMark
    /\ prior_empty = TRUE
    /\ prior_ids = {}
    /\ db_error = FALSE
StoreRest ==
    /\ TablesRest
    /\ CollectorRest
StoreInit(prog) ==
    /\ program = prog
    /\ insert_faults = {}
    /\ StoreRest
    /\ RankIdle
    /\ GateIdle

\* one cycle of the monitor fetches the reviews
FetchReviews ==
    /\ program = "reviews"
    /\ \E a \in Answers(ReviewSnapshots) :
         LET call == [fetcher |-> "reviews", source |-> NoId, ok |-> a.ok,
                      snapshot |-> a.snapshot]
             out == fetch_and_process_reviews(reviews, a.ok, a.snapshot)
         IN  /\ reviews' = out.table
             /\ prior_empty' = (reviews = {})
             /\ prior_ids' = { r.id : r \in reviews }
             /\ fetch_result' = out.result
             /\ repeated' = (last_fetch = call)
             /\ last_fetch' = call
    /\ db_error' = FALSE
    /\ UNCHANGED <<cvars, pvars, rvars, kvars, gvars, insert_faults, program, rss_seen, discussions, clock,
                   mark_count, first_mark, last_mark>>

\* one cycle of the monitor fetches the discussions
FetchDiscussions ==
    /\ program = "discussions"
    /\ \E a \in Answers(DiscussionSnapshots) :
         LET call == [fetcher |-> "discussions", source |-> NoId,
                      ok |-> a.ok, snapshot |-> a.snapshot]
             out == fetch_and_process_discussions(discussions, a.ok,
                                                  a.snapshot)
         IN  /\ discussions' = out.table
             /\ prior_empty' = (discussions = {})
             /\ prior_ids' = { r.id : r \in discussions }
             /\ fetch_result' = out.result
             /\ repeated' = (last_fetch = call)
             /\ last_fetch' = call
    /\ db_error' = FALSE
    /\ UNCHANGED <<cvars, pvars, rvars, kvars, gvars, insert_faults, program, rss_seen, reviews, clock,
                   mark_count, first_mark, last_mark>>

\* the collector fetches one configured feed
FetchRss ==
    /\ program = "collector"
    /\ \E a \in Answers(FeedSnapshots) :
         LET name == FeedName
             call == [fetcher |-> "rss", source |-> name, ok |-> a.ok,
                      snapshot |-> a.snapshot]
             out == fetch_rss_feed(rss_seen, a.ok, a.snapshot, name, clock)
             marked == { out.items[k].url : k \in DOMAIN out.items }
             item(u) == CHOOSE k \in DOMAIN out.items : out.items[k].url = u
         IN  /\ rss_seen' = out.table
             /\ prior_empty' = (rss_seen = {})
             /\ prior_ids' = { r.url : r \in rss_seen }
             /\ fetch_result' = [none |-> FALSE, items |-> out.items]
             /\ repeated' = (last_fetch = call)
             /\ last_fetch' = call
             /\ mark_count' = [u \in Urls |->
                   IF u \in marked THEN Saturate(mark_count[u])
                   ELSE mark_count[u]]
             /\ first_mark' = [u \in Urls |->
                   IF u \in marked /\ mark_count[u] = 0
                   THEN [title |-> out.items[item(u)].title,
                         source |-> name, first_seen |-> clock]
                   ELSE first_mark[u]]
             /\ last_mark' =
                  IF out.items = <<>> THEN last_mark
                  ELSE LET last == out.items[Len(out.items)]
                       IN  [url |-> last.url, title |-> last.title,
                            source |-> name, first_seen |-> clock]
    /\ db_error' = FALSE
    /\ UNCHANGED <<cvars, pvars, rvars, kvars, gvars, insert_faults, program, reviews, discussions, clock>>

\* mark_rss_item_seen called on its own, as a user of db.py may
MarkSeen ==
    /\ program = "db"
    /\ \E u \in Urls, t \in Titles, src \in Sources :
         LET out == mark_rss_item_seen(rss_seen, u, t, src, clock)
         IN  /\ rss_seen' = out.table
             /\ db_error' = out.error
             /\ mark_count' = [mark_count EXCEPT ![u] = Saturate(@)]
             /\ first_mark' =
                  IF mark_count[u] = 0
                  THEN [first_mark EXCEPT ![u] =
                          [title |-> t, source |-> src, first_seen |-> clock]]
                  ELSE first_mark
             /\ last_mark' = [url |-> u, title |-> t, source |-> src,
                              first_seen |-> clock]
    /\ UNCHANGED <<cvars, pvars, rvars, kvars, gvars, insert_faults, program, reviews, discussions, clock,
                   last_fetch, fetch_result, repeated, prior_empty,
                   prior_ids>>

\* time passes between two calls of db.py
Tick ==
    /\ program = "db"
    /\ clock < MaxClock
    /\ clock' = clock + 1
    /\ UNCHANGED <<cvars, pvars, rvars, kvars, gvars, insert_faults, program, rss_seen, reviews, discussions,
                   last_fetch, fetch_result, repeated, mark_count,
                   first_mark, last_mark, prior_empty, prior_ids, db_error>>

\* ================================================================ rankings
AppIds == {5, 7}
GameNames == {"g"}
\* the dates of the previous rankings handed to calculate_rank_changes
DeltaDates == {0, 1}
\* fetch_top_sellers(max_items=30), get_previous_rankings(days_back=7),
\* cleanup_old_data(days_to_keep=30)
MaxTopSellers == 30
DaysBack == 7
DaysToKeep == 30

\* rank_change: None, or a number
NoChange == [none |-> TRUE, value |-> 0]
Change(v) == [none |-> FALSE, value |-> v]

MaxOf(S) == CHOOSE x \in S : \A y \in S : y <= x

\* fetch_top_sellers: the items of the answer, ranked from 1 in their order
fetch_top_sellers(items) ==
    [k \in 1..Len(Take(items, MaxTopSellers)) |->
        [appid |-> items[k].appid, name |-> items[k].name, rank |-> k,
         rank_change |-> NoChange]]

\* SELECT DISTINCT date ... ORDER BY date DESC LIMIT n (a date string
\* %Y-%m-%d orders as its day does)
RECURSIVE LatestDates(_, _)
LatestDates(dates, n) ==
    IF n = 0 \/ dates = {} THEN {}
    ELSE {MaxOf(dates)} \cup LatestDates(dates \ {MaxOf(dates)}, n - 1)

\* get_previous_rankings: date -> appid -> {name, rank}
get_previous_rankings(table, days_back) ==
    [d \in LatestDates({ r.date : r \in table }, days_back) |->
        [a \in { r.appid : r \in { q \in table : q.date = d } } |->
            LET row == CHOOSE r \in table : r.date = d /\ r.appid = a
            IN  [name |-> row.name, rank |-> row.rank]]]

\* a delta taken the other way round
calculate_rank_changes_reversed(current_rankings, previous_rankings) ==
    IF DOMAIN previous_rankings = {}
    THEN current_rankings
    ELSE LET previous == previous_rankings[MaxOf(DOMAIN previous_rankings)]
         IN  [k \in DOMAIN current_rankings |->
                [current_rankings[k] EXCEPT !.rank_change =
                    IF current_rankings[k].appid \in DOMAIN previous
                    THEN Change(current_rankings[k].rank
                                - previous[current_rankings[k].appid].rank)
                    ELSE NoChange]]

\* calculate_rank_changes
calculate_rank_changes(current_rankings, previous_rankings) ==
    IF DOMAIN previous_rankings = {}
    THEN current_rankings
    ELSE LET latest_date == MaxOf(DOMAIN previous_rankings)
             previous == previous_rankings[latest_date]
         IN  [k \in DOMAIN current_rankings |->
                LET game == current_rankings[k]
                IN  [game EXCEPT !.rank_change =
                       IF game.appid \in DOMAIN previous
                       THEN Change(previous[game.appid].rank - game.rank)
                       ELSE NoChange]]

\* a store that keeps the row already there (INSERT OR IGNORE)
RECURSIVE store_steam_rankings_ignore(_, _, _, _)
store_steam_rankings_ignore(table, date, rankings, timestamp) ==
    IF rankings = <<>> THEN table
    ELSE LET game == Head(rankings)
             row == [date |-> date, appid |-> game.appid, name |-> game.name,
                     rank |-> game.rank, timestamp |-> timestamp]
         IN  store_steam_rankings_ignore(
                 IF \E r \in table : r.date = date /\ r.appid = game.appid
                 THEN table ELSE table \cup {row},
                 date, Tail(rankings), timestamp)

\* store_steam_rankings: INSERT OR REPLACE of every game, in order, into a
\* table with primary key (date, appid)
RECURSIVE store_steam_rankings(_, _, _, _)
store_steam_rankings(table, date, rankings, timestamp) ==
    IF rankings = <<>> THEN table
    ELSE LET game == Head(rankings)
             row == [date |-> date, appid |-> game.appid, name |-> game.name,
                     rank |-> game.rank, timestamp |-> timestamp]
         IN  store_steam_rankings(
                 { r \in table : ~(r.date = date /\ r.appid = game.appid) }
                     \cup {row},
                 date, Tail(rankings), timestamp)

\* cleanup_old_data on steam_rankings (times counted in days)
cleanup_old_rankings(table, now_day, days_to_keep) ==
    { r \in table : ~(r.timestamp < now_day - days_to_keep) }

\* what the featuredcategories API can answer
TopSellerAnswers == SeqsUpTo([appid : AppIds, name : GameNames], MaxSnapshot)

\* the ranking part of one run of the collector
CollectRankings ==
    /\ program = "rankings"
    /\ \E items \in TopSellerAnswers :
         LET kept == cleanup_old_rankings(steam_rankings, today, DaysToKeep)
             steam_top_sellers == fetch_top_sellers(items)
             previous_rankings == get_previous_rankings(kept, DaysBack)
             changed == calculate_rank_changes(steam_top_sellers,
                                               previous_rankings)
         IN  IF steam_top_sellers = <<>>
             THEN /\ steam_rankings' = kept
                  /\ top_sellers' = <<>>
                  /\ computed' = FALSE
                  /\ UNCHANGED <<current_in, previous_in, run_info>>
             ELSE /\ current_in' = steam_top_sellers
                  /\ previous_in' = previous_rankings
                  /\ top_sellers' = changed
                  /\ computed' = TRUE
                  /\ run_info' = [day |-> today,
                                  dates |-> { r.date : r \in kept }]
                  /\ steam_rankings' =
                       store_steam_rankings(kept, today, changed, today)
    /\ UNCHANGED <<cvars, pvars, rvars, svars, gvars, today>>

\* the names a game is listed under, and the lists store_steam_rankings is
\* given: up to as many games as there are appids, an appid possibly twice
AnswerNames == {"g", "h"}
NamedAnswers ==
    SeqsUpTo([appid : AppIds, name : AnswerNames], Cardinality(AppIds))

\* store_steam_rankings called on its own, for any date
StoreRankings ==
    /\ program = "ranking_store"
    /\ \E date \in DeltaDates, items \in NamedAnswers :
         LET rankings == fetch_top_sellers(items)
         IN  /\ steam_rankings' =
                  store_steam_rankings(steam_rankings, date, rankings, today)
             /\ top_sellers' = rankings
             /\ run_info' = [day |-> date,
                             dates |-> { r.date : r \in steam_rankings }]
    /\ UNCHANGED <<cvars, pvars, rvars, svars, gvars, today, current_in,
                   previous_in, computed>>

\* midnight
NextDay ==
    /\ program = "rankings"
    /\ today < MaxDay
    /\ today' = today + 1
    /\ UNCHANGED <<cvars, pvars, rvars, svars, gvars, steam_rankings, current_in,
                   previous_in, top_sellers, computed, run_info>>

\* calculate_rank_changes called on its own
ComputeDeltas ==
    /\ program = "deltas"
    /\ ~computed
    /\ top_sellers' = calculate_rank_changes(current_in, previous_in)
    /\ computed' = TRUE
    /\ UNCHANGED <<cvars, pvars, rvars, svars, gvars, steam_rankings, today, current_in,
                   previous_in, run_info>>

\* ===================================================== runs of the collector
\* a cleanup that also deletes the records that are exactly days_to_keep old
cleanup_old_rss_inclusive(table, now_day, days_to_keep) ==
    { r \in table : ~(r.first_seen <= now_day - days_to_keep) }

\* cleanup_old_data on rss_seen (times counted in days):
\* DELETE FROM rss_seen WHERE first_seen < cutoff_timestamp
cleanup_old_rss(table, now_day, days_to_keep) ==
    { r \in table : ~(r.first_seen < now_day - days_to_keep) }

\* the time between two runs of the collector that are followed: one
\* retention period, or a day more
RunGaps == {DaysToKeep, DaysToKeep + 1}

\* what the configured feed can hold when the collector reads it: up to as
\* many entries as there are URLs, one of them possibly twice or without link
RunFeeds ==
    SeqsUpTo([link : Urls \cup {NoId}, title : {"t1"}], Cardinality(Urls))

\* main of the collector up to the RSS items: cleanup_old_data, then
\* fetch_all_rss_feeds on the configured feed, whose answer is a
RssItemsOfRun(a) ==
    LET name == FeedName
        kept == cleanup_old_rss(rss_seen, clock, DaysToKeep)
        call == [fetcher |-> "rss", source |-> name, ok |-> a.ok,
                 snapshot |-> a.snapshot]
        out == fetch_rss_feed(kept, a.ok, a.snapshot, name, clock)
        marked == { out.items[k].url : k \in DOMAIN out.items }
        item(u) == CHOOSE k \in DOMAIN out.items : out.items[k].url = u
        links == { a.snapshot[k].link : k \in DOMAIN a.snapshot }
    IN  /\ rss_seen' = out.table
        /\ reported_at' = [u \in Urls |->
              IF u \in marked THEN clock ELSE reported_at[u]]
        /\ regap' = [u \in Urls |->
              IF u \in marked /\ reported_at[u] # NoTime
              THEN clock - reported_at[u] ELSE regap[u]]
        /\ absent' = absent \cup
              { u \in Urls : reported_at[u] # NoTime /\ u \notin links }
        /\ run_at' = clock
        /\ prior_empty' = (kept = {})
        /\ prior_ids' = { r.url : r \in kept }
        /\ fetch_result' = [none |-> FALSE, items |-> out.items]
        /\ repeated' = (last_fetch = call)
        /\ last_fetch' = call
        /\ mark_count' = [u \in Urls |->
              IF u \in marked THEN Saturate(mark_count[u])
              ELSE mark_count[u]]
        /\ first_mark' = [u \in Urls |->
              IF u \in marked /\ mark_count[u] = 0
              THEN [title |-> out.items[item(u)].title,
                    source |-> name, first_seen |-> clock]
              ELSE first_mark[u]]
        /\ last_mark' =
             IF out.items = <<>> THEN last_mark
             ELSE LET last == out.items[Len(out.items)]
                  IN  [url |-> last.url, title |-> last.title,
                       source |-> name, first_seen |-> clock]
        /\ db_error' = FALSE

\* open(output_path, 'w') and json.dump: the bundle is written, or the write
\* raises and leaves the file of the run before, or a truncated one
WriteOutcomes == {"written", "untouched", "truncated"}

\* one run of the collector process, as the orchestrator starts and retries
\* it: the RSS items are fetched (and marked seen), then signals.json is
\* written; when the write raises, the process exits 1
CollectorRun ==
    /\ program = "delivery"
    /\ \E a \in Answers(RunFeeds), outcome \in WriteOutcomes :
         /\ RssItemsOfRun(a)
         /\ LET rss_items == { fetch_result'.items[k].url :
                                 k \in DOMAIN fetch_result'.items }
            IN  IF outcome = "written"
                THEN /\ bundle' = [ok |-> TRUE, urls |-> rss_items]
                     /\ bundled' = bundled \cup rss_items
                ELSE /\ bundle' = [ok |-> FALSE,
                                   urls |-> IF outcome = "truncated" THEN {}
                                            ELSE bundle.urls]
                     /\ bundled' = bundled
    /\ UNCHANGED <<pvars, rvars, kvars, gvars, insert_faults, program,
                   reviews, discussions, clock, feed, fetchers>>

\* the RSS items of one run of the collector, over the days
CollectorFetch ==
    /\ program = "runs"
    /\ \E a \in Answers(RunFeeds) : RssItemsOfRun(a)
    /\ UNCHANGED <<pvars, rvars, kvars, gvars, insert_faults, program,
                   reviews, discussions, clock, feed, fetchers, bundle,
                   bundled>>

\* the days until the orchestrator starts the collector again
Wait ==
    /\ program = "runs"
    /\ \E d \in RunGaps :
         /\ clock + d <= MaxWaits * (DaysToKeep + 1)
         /\ clock' = clock + d
    /\ UNCHANGED <<pvars, rvars, kvars, gvars, cvars, insert_faults, program,
                   rss_seen, reviews, discussions, last_fetch, fetch_result,
                   repeated, mark_count, first_mark, last_mark, prior_empty,
                   prior_ids, db_error>>

\* ------------------------------------------- two processes in fetch_rss_feed
\* the entry a process is at
EntryOf(p) == Take(feed, MaxItems)[fetchers[p].k]

\* a process is at the top of the loop body: an entry without link or one
\* that is_rss_item_new finds in rss_seen is skipped; a new one is appended
\* to the items of the process, which has yet to mark it
FetcherCheck(p) ==
    /\ program = "fetchers"
    /\ ~fetchers[p].marking
    /\ fetchers[p].k <= Len(Take(feed, MaxItems))
    /\ LET link == EntryOf(p).link
       IN  IF link = NoId \/ ~is_rss_item_new(rss_seen, link)
           THEN fetchers' = [fetchers EXCEPT ![p].k = @ + 1]
           ELSE fetchers' = [fetchers EXCEPT ![p].marking = TRUE,
                                             ![p].items = Append(@, link)]
    /\ UNCHANGED <<pvars, rvars, svars, kvars, gvars, bundle, bundled,
                   reported_at, regap, absent, run_at, feed>>

\* the process calls mark_rss_item_seen in a connection of its own and goes
\* on with the next entry
FetcherMark(p) ==
    /\ program = "fetchers"
    /\ fetchers[p].marking
    /\ rss_seen' = mark_rss_item_seen(rss_seen, EntryOf(p).link,
                                      EntryOf(p).title, FeedName, clock).table
    /\ fetchers' = [fetchers EXCEPT ![p].marking = FALSE, ![p].k = @ + 1]
    /\ UNCHANGED <<pvars, rvars, kvars, gvars, bundle, bundled, reported_at,
                   regap, absent, run_at, feed, insert_faults, program,
                   reviews, discussions, clock, last_fetch, fetch_result,
                   repeated, mark_count, first_mark, last_mark, prior_empty,
                   prior_ids, db_error>>

\* ============================================================ summary gate
SecondsPerHour == 3600

\* str(n) and int(s) for n >= 0: the decimal digits, most significant first
RECURSIVE Str(_)
Str(n) == IF n < 10 THEN <<n>> ELSE Append(Str(n \div 10), n % 10)
RECURSIVE ParseInt(_)
ParseInt(digits) ==
    IF Len(digits) = 1 THEN digits[1]
    ELSE 10 * ParseInt(SubSeq(digits, 1, Len(digits) - 1)) + digits[Len(digits)]

\* get_metadata: None when the key is absent and when the SELECT fails
get_metadata(stored, ok) == IF ok THEN stored ELSE NoValue
\* set_metadata: INSERT OR REPLACE; a failure is logged and swallowed
set_metadata(stored, value, ok) == IF ok THEN value ELSE stored

\* a gate that fires only after more than the interval
should_generate_summary_late(flag, memory, read, current_time) ==
    IF ~enable_ai_summary \/ ~openai_api_key
    THEN [ret |-> FALSE, forced |-> FALSE, memory |-> memory]
    ELSE IF flag
    THEN [ret |-> TRUE, forced |-> TRUE, memory |-> memory]
    ELSE LET loaded == IF memory = NoTime /\ read # NoValue
                       THEN ParseInt(read) ELSE memory
         IN  [ret |-> IF loaded = NoTime THEN TRUE
                      ELSE (current_time - loaded)
                               > interval_hours * SecondsPerHour,
              forced |-> FALSE, memory |-> loaded]

\* should_generate_summary: what it returns, whether the force flag decided,
\* and last_summary_time afterwards; read is what get_metadata would return
should_generate_summary(flag, memory, read, current_time) ==
    IF ~enable_ai_summary
    THEN [ret |-> FALSE, forced |-> FALSE, memory |-> memory]
    ELSE IF ~openai_api_key
    THEN [ret |-> FALSE, forced |-> FALSE, memory |-> memory]
    ELSE IF flag
    THEN [ret |-> TRUE, forced |-> TRUE, memory |-> memory]
    ELSE LET loaded == IF memory = NoTime /\ read # NoValue
                       THEN ParseInt(read) ELSE memory
             interval_seconds == interval_hours * SecondsPerHour
         IN  [ret |-> IF loaded = NoTime THEN TRUE
                      ELSE (current_time - loaded) >= interval_seconds,
              forced |-> FALSE, memory |-> loaded]

\* fetch_and_generate_summary: with a summary, last_summary_time is set and
\* written to metadata; without one (no data, API failure) nothing changes
fetch_and_generate_summary(memory, stored, made, current_time, write_ok) ==
    IF made
    THEN [memory |-> current_time,
          stored |-> set_metadata(stored, Str(current_time), write_ok),
          summary |-> TRUE]
    ELSE [memory |-> memory, stored |-> stored, summary |-> FALSE]

\* a loop that leaves the flag as it is
FlagAfterCycleKept == first_loop_iteration
\* first_loop_iteration = False at the end of the try block
FlagAfterCycle == FALSE

\* the summary part of one iteration of the main loop, and the sleep after it
SummaryCycle ==
    /\ program = "summary"
    /\ cycle < MaxCycles
    /\ \E read_ok \in BOOLEAN, made \in BOOLEAN, write_ok \in BOOLEAN :
         LET read == get_metadata(metadata, read_ok)
             decision == should_generate_summary(first_loop_iteration,
                             last_summary_time, read, gate_clock)
             out == IF decision.ret
                    THEN fetch_and_generate_summary(decision.memory, metadata,
                                                    made, gate_clock, write_ok)
                    ELSE [memory |-> decision.memory, stored |-> metadata,
                          summary |-> FALSE]
         IN  /\ gate' = [ret |-> decision.ret, forced |-> decision.forced,
                         flag |-> first_loop_iteration,
                         memory |-> last_summary_time, read |-> read,
                         now |-> gate_clock]
             /\ last_summary_time' = out.memory
             /\ metadata' = out.stored
             /\ summary_at' = IF out.summary THEN gate_clock ELSE NoTime
             /\ forced_cycles' = IF decision.forced
                                 THEN forced_cycles \cup {cycle + 1}
                                 ELSE forced_cycles
             /\ force_failed' = IF decision.forced THEN ~out.summary
                                ELSE force_failed
    /\ first_loop_iteration' = FlagAfterCycle
    /\ cycle' = cycle + 1
    /\ gate_clock' = gate_clock + check_hours * SecondsPerHour
    /\ UNCHANGED <<cvars, pvars, rvars, svars, kvars, enable_ai_summary,
                   openai_api_key, interval_hours, check_hours>>

\* ------------------------------------------------------------ run_service
ReturnCodes == {0, 1}

ExitError(svc) == svc \o " failed with exit code 1"
TimeoutError(svc) == svc \o " timed out after 10 minutes"
ExceptionError(svc) == svc \o " failed: exception"
MaxRetriesError == "Max retries exceeded"

\* what one run of a stage process may do to the files it writes: leave a
\* file as it is, or create / rewrite it empty or with content
StageEffects(fs, svc) ==
    { g \in [Files -> FileStates] :
        \A f \in Files :
            IF f \in Outputs(svc)
            THEN g[f] \in {fs[f], "empty", "nonempty"}
            ELSE g[f] = fs[f] }

\* a retry test that gives up one attempt early
HasRetryEarly(a, mr) == a < mr - 1

\* "if attempt < max_retries" of the three failure branches
HasRetry(a, mr) == a < mr

\* a backoff that does not grow with the attempt number
RetryWaitFixed(kind, a) == IF kind = "exit" THEN 2 ELSE 0

\* seconds slept before the next attempt, by the way attempt a failed:
\* time.sleep(2 ** attempt) exists only in the exit-code branch
RetryWait(kind, a) == IF kind = "exit" THEN Pow2(a) ELSE 0

\* entry of run_service(svc, mr), as a conjunct of the caller's action
CallService(svc, mr) ==
    /\ rs_pc' = "loop"
    /\ service_name' = svc
    /\ max_retries' = mr
    /\ attempt' = 0
    /\ result' = NoResult
    /\ failures' = 0
    /\ last_failure' = None
    /\ fail_end' = 0
    /\ start_time' = 0

\* run_service has returned and its caller has taken the result: the locals
\* of the call are gone
ReturnService ==
    /\ rs_pc' = "idle"
    /\ service_name' = None
    /\ attempt' = 0
    /\ result' = NoResult
    /\ failures' = 0
    /\ last_failure' = None
    /\ fail_end' = 0
    /\ start_time' = 0

\* a loop variable that is not advanced
SameAttempt(a) == a

\* the next value of the loop variable of "for attempt in range(1, ...)"
NextAttempt(a) == a + 1

\* one more iteration of "for attempt in range(1, max_retries + 1)":
\* subprocess.run is started
RS_StartAttempt ==
    /\ UNCHANGED ovars
    /\ rs_pc = "loop"
    /\ attempt < max_retries
    /\ attempt' = NextAttempt(attempt)
    /\ start_time' = now
    /\ running' = running \cup {service_name}
    /\ attempts' = [attempts EXCEPT ![service_name] = @ + 1]
    /\ rs_pc' = "subprocess"
    /\ UNCHANGED <<pvars, service_name, max_retries, result, failures,
                   faults, last_failure, fail_end>>

\* the loop ends without a return (only when max_retries < 1)
RS_Exhausted ==
    /\ UNCHANGED ovars
    /\ rs_pc = "loop"
    /\ ~(attempt < max_retries)
    /\ result' = [success |-> FALSE, duration |-> 0, error |-> MaxRetriesError]
    /\ rs_pc' = "returned"
    /\ UNCHANGED <<pvars, service_name, max_retries, attempt, running,
                   attempts, failures, faults, last_failure, fail_end,
                   start_time>>

\* the common tail of the three failure branches
FailedAttempt(kind, ended, duration, error) ==
    /\ faults < MaxFailedAttempts
    /\ faults' = faults + 1
    /\ failures' = failures + 1
    /\ last_failure' = kind
    /\ fail_end' = ended
    /\ IF HasRetry(attempt, max_retries)
       THEN /\ now' = ended + RetryWait(kind, attempt)
            /\ rs_pc' = "loop"
            /\ UNCHANGED result
       ELSE /\ now' = ended
            /\ result' = [success |-> FALSE, duration |-> duration,
                          error |-> error]
            /\ rs_pc' = "returned"

\* subprocess.run returns with an exit status
RS_Exit ==
    /\ UNCHANGED ovars
    /\ rs_pc = "subprocess"
    /\ \E rc \in ReturnCodes, d \in Durations,
          fs \in StageEffects(files, service_name) :
        /\ files' = fs
        /\ running' = running \ {service_name}
        /\ IF rc = 0
           THEN /\ now' = now + d
                /\ result' = [success |-> TRUE, duration |-> d, error |-> None]
                /\ rs_pc' = "returned"
                /\ UNCHANGED <<failures, faults, last_failure, fail_end>>
           ELSE FailedAttempt("exit", now + d, d, ExitError(service_name))
    /\ UNCHANGED <<state, skipped, runs, pipeline_start, executions,
                   exec_base, notify_calls, notify_base, posted,
                   notify_enabled, service_name, max_retries, attempt,
                   attempts, start_time>>

\* subprocess.TimeoutExpired: the child is killed after 600 s
RS_Timeout ==
    /\ UNCHANGED ovars
    /\ rs_pc = "subprocess"
    /\ \E fs \in StageEffects(files, service_name) :
        /\ files' = fs
        /\ running' = running \ {service_name}
        /\ FailedAttempt("timeout", now + AttemptTimeout, AttemptTimeout,
                         TimeoutError(service_name))
    /\ UNCHANGED <<state, skipped, runs, pipeline_start, executions,
                   exec_base, notify_calls, notify_base, posted,
                   notify_enabled, service_name, max_retries, attempt,
                   attempts, start_time>>

\* any other exception of subprocess.run (the process was not started)
RS_Exception ==
    /\ UNCHANGED ovars
    /\ rs_pc = "subprocess"
    /\ running' = running \ {service_name}
    /\ FailedAttempt("exception", now, 0, ExceptionError(service_name))
    /\ UNCHANGED <<files, state, skipped, runs, pipeline_start, executions,
                   exec_base, notify_calls, notify_base, posted,
                   notify_enabled, service_name, max_retries, attempt,
                   attempts, start_time>>

RunServiceStep == RS_StartAttempt \/ RS_Exit \/ RS_Timeout \/ RS_Exception

\* ---------------------------------------------------------- notifications
FailureMsg(stage, error) ==
    [kind |-> "failure", stage |-> stage, error |-> error, duration |-> 0]
SuccessMsg(duration) ==
    [kind |-> "success", stage |-> "pipeline", error |-> None,
     duration |-> duration]

\* a notification that is posted whether or not the sink is configured
Notify_unguarded(msg) ==
    /\ notify_calls' = Append(notify_calls, msg)
    /\ posted' = Append(posted, msg)

\* notify_success / notify_failure: return at once when the webhook is not
\* configured or notifications are off; otherwise requests.post, whose
\* failure is swallowed by the bare except
Notify(msg) ==
    /\ notify_calls' = Append(notify_calls, msg)
    /\ IF notify_enabled
       THEN \E delivered \in BOOLEAN :
                posted' = IF delivered THEN Append(posted, msg) ELSE posted
       ELSE posted' = posted

\* a failure notification that does not name the failing stage
notify_failure_unnamed(stage, error) == Notify(FailureMsg("pipeline", error))
\* a success path that sends nothing
notify_success_silent(duration) == UNCHANGED <<notify_calls, posted>>

notify_failure(stage, error) == Notify(FailureMsg(stage, error))
notify_success(duration) == Notify(SuccessMsg(duration))

\* ----------------------------------------------------------- run_pipeline
RunningState(i) == <<"Stage1Running", "Stage2Running", "Stage3Running">>[i]
ValidatedState(i) ==
    <<"Stage1Validated", "Stage2Validated", "Stage3Validated">>[i]
Terminal == {"Complete", "Failed"}

\* the validate_file_exists calls that follow each stage, in code order,
\* with the error text of each
Validations(svc) ==
    CASE svc = "collector" ->
           <<[file |-> "signals",
              error |-> "Collector did not produce valid signals.json"]>>
      [] svc = "writer" ->
           <<[file |-> "script",
              error |-> "Writer did not produce valid script"]>>
      [] svc = "publisher" ->
           <<[file |-> "episode",
              error |-> "Publisher did not produce episode MP3"],
             [file |-> "feed",
              error |-> "Publisher did not update RSS feed"]>>

\* a sequencer that validates nothing
NoValidations(fs, svc) == {}

\* indexes of the validations of svc that fail on file system fs
FailedValidations(fs, svc) ==
    { k \in DOMAIN Validations(svc) :
        ~validate_file_exists(fs, Validations(svc)[k].file) }

Min(S) == CHOOSE x \in S : \A y \in S : x <= y

\* an entry guard that asks for a non-empty episode
EpisodeValid(fs) == fs["episode"] = "nonempty"

\* os.path.exists(episode_path)
EpisodeExists(fs) == fs["episode"] # "missing"

\* run_pipeline is invoked and today's episode already exists: return
SkipRun ==
    /\ UNCHANGED ovars
    /\ state \in {"Idle"} \cup Terminal
    /\ runs < MaxRuns
    /\ EpisodeExists(files)
    /\ runs' = runs + 1
    /\ skipped' = TRUE
    /\ state' = "Complete"
    /\ exec_base' = Len(executions)
    /\ notify_base' = Len(notify_calls)
    /\ attempts' = ZeroCount
    /\ now' = 0
    /\ UNCHANGED <<files, pipeline_start, executions, notify_calls,
                   posted, notify_enabled, rs_pc, service_name, max_retries,
                   attempt, result, running, failures, faults, last_failure,
                   fail_end, start_time>>

\* run_pipeline is invoked, no episode yet: stage 1 is started
StartRun ==
    /\ UNCHANGED ovars
    /\ state \in {"Idle"} \cup Terminal
    /\ runs < MaxRuns
    /\ ~EpisodeExists(files)
    /\ runs' = runs + 1
    /\ skipped' = FALSE
    /\ now' = 0
    /\ pipeline_start' = now'
    /\ state' = RunningState(1)
    /\ exec_base' = Len(executions)
    /\ notify_base' = Len(notify_calls)
    /\ attempts' = ZeroCount
    /\ CallService(Stages[1], DefaultMaxRetries)
    /\ UNCHANGED <<files, executions, notify_calls, posted,
                   notify_enabled, running, faults>>

\* run_service has returned to run_pipeline: the record is logged, a failure
\* ends the run, a success is followed by the validation of the artifacts
StageReturned(i) ==
    /\ UNCHANGED ovars
    /\ state = RunningState(i)
    /\ rs_pc = "returned"
    /\ ReturnService
    /\ LET svc == Stages[i]
           logged == log_execution(executions, svc,
                        IF result.success THEN "success" ELSE "failure",
                        result.duration, result.error)
           bad == FailedValidations(files, svc)
       IN  IF ~result.success
           THEN /\ executions' = logged
                /\ notify_failure(svc, result.error)
                /\ state' = "Failed"
           ELSE IF bad # {}
           THEN LET error == Validations(svc)[Min(bad)].error
                IN  /\ executions' = log_execution(logged, svc, "failure",
                                                   result.duration, error)
                    /\ notify_failure(svc, error)
                    /\ state' = "Failed"
           ELSE /\ executions' = logged
                /\ state' = ValidatedState(i)
                /\ UNCHANGED <<notify_calls, posted>>
    /\ UNCHANGED <<files, skipped, runs, now, pipeline_start, exec_base,
                   notify_base, notify_enabled, max_retries, running,
                   attempts, faults>>

\* a validated stage is followed by the next stage
NextStage(i) ==
    /\ UNCHANGED ovars
    /\ i < Len(Stages)
    /\ state = ValidatedState(i)
    /\ state' = RunningState(i + 1)
    /\ CallService(Stages[i + 1], DefaultMaxRetries)
    /\ UNCHANGED <<pvars_but_state, running, attempts, faults>>

\* all stages validated: the pipeline record and the success notification
PipelineComplete ==
    /\ UNCHANGED ovars
    /\ state = ValidatedState(Len(Stages))
    /\ LET total_duration == now - pipeline_start
       IN  /\ executions' = log_execution(executions, "pipeline", "success",
                                          total_duration, None)
           /\ notify_success(total_duration)
    /\ state' = "Complete"
    /\ UNCHANGED <<files, skipped, runs, now, pipeline_start, exec_base,
                   notify_base, notify_enabled, rvars>>

PipelineInit ==
    /\ StoreInit("orchestrator")
    /\ files \in { f \in [Files -> {"missing", "nonempty"}] :
                     f["script"] = "missing" /\ f["episode"] = "missing" }
    /\ state = "Idle"
    /\ skipped = FALSE
    /\ runs = 0
    /\ now = 0
    /\ pipeline_start = 0
    /\ executions = <<>>
    /\ exec_base = 0
    /\ notify_calls = <<>>
    /\ notify_base = 0
    /\ posted = <<>>
    /\ notify_enabled \in BOOLEAN
    /\ rs_pc = "idle"
    /\ service_name = None
    /\ max_retries = DefaultMaxRetries
    /\ attempt = 0
    /\ result = NoResult
    /\ running = {}
    /\ attempts = ZeroCount
    /\ failures = 0
    /\ faults = 0
    /\ last_failure = None
    /\ fail_end = 0
    /\ start_time = 0

PipelineStep ==
    \/ SkipRun
    \/ StartRun
    \/ \E i \in DOMAIN Stages : StageReturned(i)
    \/ \E i \in DOMAIN Stages : NextStage(i)
    \/ PipelineComplete

Init == PipelineInit
Next == PipelineStep \/ RunServiceStep
Spec == Init /\ [][Next]_vars
\* every step of a run ends: the subprocess by exit or by its timeout, the
\* sleep by its delay, the orchestrator's own statements by themselves
FairSpec == Spec /\ WF_vars(PipelineStep \/ RunServiceStep)

\* log_execution has no handler around connect, execute and commit: when
\* sqlite3 raises there (database locked, disk full), no record is written
\* and the exception leaves run_pipeline, which has no handler either
LogExecutionRaises ==
    /\ UNCHANGED ovars
    /\ \/ \E i \in DOMAIN Stages :
            \* the record of the stage result
            /\ state = RunningState(i)
            /\ rs_pc = "returned"
            /\ ReturnService
            /\ UNCHANGED executions
       \/ \E i \in DOMAIN Stages :
            \* the failure record of a validation that failed
            /\ state = RunningState(i)
            /\ rs_pc = "returned"
            /\ result.success
            /\ FailedValidations(files, Stages[i]) # {}
            /\ ReturnService
            /\ executions' = log_execution(executions, Stages[i], "success",
                                           result.duration, result.error)
       \/ \* the record of the pipeline
          /\ state = ValidatedState(Len(Stages))
          /\ UNCHANGED <<executions, rs_pc, service_name, attempt, result,
                         failures, last_failure, fail_end, start_time>>
    /\ state' = "Aborted"
    /\ UNCHANGED <<files, skipped, runs, now, pipeline_start, exec_base,
                   notify_base, notify_calls, posted, notify_enabled,
                   max_retries, running, attempts, faults>>
LogFaultNext == Next \/ LogExecutionRaises
SpecLogFault == Init /\ [][LogFaultNext]_vars

\* ------------------------------------------- run_service called on its own
\* run_service(svc, mr) is called with any service and any retry limit
RunnerCall ==
    /\ UNCHANGED ovars
    /\ rs_pc = "idle"
    /\ runs < MaxRuns
    /\ runs' = runs + 1
    /\ now' = 0
    /\ attempts' = ZeroCount
    /\ \E svc \in Services, mr \in 0..MaxRetriesBound : CallService(svc, mr)
    /\ UNCHANGED <<files, state, skipped, pipeline_start, executions,
                   exec_base, notify_calls, notify_base, posted,
                   notify_enabled, running, faults>>

\* the caller takes the returned triple
RunnerReturn ==
    /\ UNCHANGED ovars
    /\ rs_pc = "returned"
    /\ ReturnService
    /\ UNCHANGED <<pvars, max_retries, running, attempts, faults>>

RunnerNext ==
    \/ RunnerCall
    \/ RunnerReturn
    \/ RS_StartAttempt
    \/ RS_Exhausted
    \/ RS_Exit
    \/ RS_Timeout
    \/ RS_Exception
SpecRunner == PipelineInit /\ [][RunnerNext]_vars

\* ------------------------------------------ the store programs on their own
StoreNext ==
    \/ FetchReviews
    \/ FetchDiscussions
    \/ FetchRss
    \/ MarkSeen
    \/ Tick
\* the orchestrator is idle; the reviews and the discussions of the monitor,
\* the feeds of the collector and db.py work on tables of their own, and one
\* of them is followed
Programs == {"reviews", "discussions", "collector", "db"}
OrchestratorIdle ==
    /\ files = [f \in Files |-> "missing"]
    /\ state = "Idle"
    /\ skipped = FALSE
    /\ runs = 0
    /\ now = 0
    /\ pipeline_start = 0
    /\ executions = <<>>
    /\ exec_base = 0
    /\ notify_calls = <<>>
    /\ notify_base = 0
    /\ posted = <<>>
    /\ notify_enabled = FALSE
    /\ rs_pc = "idle"
    /\ service_name = None
    /\ max_retries = DefaultMaxRetries
    /\ attempt = 0
    /\ result = NoResult
    /\ running = {}
    /\ attempts = ZeroCount
    /\ failures = 0
    /\ faults = 0
    /\ last_failure = None
    /\ fail_end = 0
    /\ start_time = 0
StoreSpecInit ==
    /\ \E prog \in Programs : StoreInit(prog)
    /\ OrchestratorIdle
SpecStore == StoreSpecInit /\ [][StoreNext]_vars

\* the monitor when the insert of some items raises: a payload that
\* violates the schema, a locked database
FaultyItems == SUBSET (ReviewIds \cup DiscussionIds)
InsertFaultInit ==
    /\ insert_faults \in FaultyItems
    /\ RankIdle
    /\ GateIdle
    /\ \E prog \in {"reviews", "discussions"} : program = prog
    /\ StoreRest
    /\ OrchestratorIdle
MonitorNext ==
    \/ FetchReviews
    \/ FetchDiscussions
SpecInsertFault == InsertFaultInit /\ [][MonitorNext]_vars

\* the rankings of the collector, and calculate_rank_changes on its own
PartialMaps(D, R) == UNION { [S -> R] : S \in SUBSET D }
RankedItems ==
    SeqsUpTo([appid : AppIds, name : GameNames, rank : 1..MaxRank,
              rank_change : {NoChange}], MaxSnapshot)
PreviousRankings ==
    PartialMaps(DeltaDates,
                PartialMaps(AppIds, [name : GameNames, rank : 1..MaxRank]))
RankInit ==
    /\ \/ /\ program = "rankings"
          /\ RankIdle
       \/ /\ program = "deltas"
          /\ RankRest
          /\ current_in \in RankedItems
          /\ previous_in \in PreviousRankings
    /\ insert_faults = {}
    /\ StoreRest
    /\ GateIdle
    /\ OrchestratorIdle
RankNext ==
    \/ CollectRankings
    \/ NextDay
    \/ ComputeDeltas
SpecRank == RankInit /\ [][RankNext]_vars

\* any sequence of store_steam_rankings calls on an empty table
RankStoreInit ==
    /\ StoreInit("ranking_store")
    /\ OrchestratorIdle
RankStoreNext == StoreRankings
SpecRankStore == RankStoreInit /\ [][RankStoreNext]_vars

\* the summary gate of the monitor, for every configuration and every cursor
\* an earlier process may have left in metadata
GateInit ==
    /\ program = "summary"
    /\ GateRest
    /\ enable_ai_summary \in BOOLEAN
    /\ openai_api_key \in BOOLEAN
    /\ interval_hours \in 0..MaxInterval
    /\ check_hours \in 1..MaxCheck
    /\ metadata \in {NoValue, Str(0)}
    /\ insert_faults = {}
    /\ StoreRest
    /\ RankIdle
    /\ OrchestratorIdle
GateNext == SummaryCycle
SpecGate == GateInit /\ [][GateNext]_vars

\* the collector started, and after a failure started again, by run_service
CollectorInit ==
    /\ StoreInit("delivery")
    /\ OrchestratorIdle
CollectorNext == CollectorRun
SpecCollector == CollectorInit /\ [][CollectorNext]_vars

\* the collector run again and again, days apart
RetentionInit ==
    /\ StoreInit("runs")
    /\ OrchestratorIdle
RetentionNext ==
    \/ CollectorFetch
    \/ Wait
SpecRetention == RetentionInit /\ [][RetentionNext]_vars

\* two collector processes fetch the same feed at the same time
FetchersInit ==
    /\ program = "fetchers"
    /\ insert_faults = {}
    /\ TablesRest
    /\ bundle = NoBundle
    /\ bundled = {}
    /\ reported_at = [u \in Urls |-> NoTime]
    /\ regap = [u \in Urls |-> NoTime]
    /\ absent = {}
    /\ run_at = NoTime
    /\ feed \in FeedSnapshots
    /\ fetchers = [p \in Procs |-> NoFetcher]
    /\ RankIdle
    /\ GateIdle
    /\ OrchestratorIdle
FetchersNext == \E p \in Procs : FetcherCheck(p) \/ FetcherMark(p)
SpecFetchers == FetchersInit /\ [][FetchersNext]_vars

\* ------------------------------------------------- what the claims refer to
\* the execution records and the notify calls of the current run
RunLog == SubSeq(executions, exec_base + 1, Len(executions))
RunNotes == SubSeq(notify_calls, notify_base + 1, Len(notify_calls))
TotalAttempts ==
    attempts["collector"] + attempts["writer"] + attempts["publisher"]
InRun == state \notin {"Idle", "Complete", "Failed"}
\* the artifacts checked after each stage
ArtifactsOf(svc) ==
    IF svc = "collector" THEN {"signals"}
    ELSE IF svc = "writer" THEN {"script"}
    ELSE {"episode", "feed"}
Predecessor(svc) == IF svc = "writer" THEN "collector" ELSE "writer"
HasRecord(log, stage, status) ==
    \E k \in DOMAIN log : log[k].stage = stage /\ log[k].status = status

\* C1: when run_pipeline is invoked while today's episode file exists, the
\* run is Complete in that very step, no subprocess is started, nothing is
\* running, and for the rest of that run no stage attempt is ever made.
C1_EntryGuard ==
    /\ [][(runs' = runs + 1 /\ files["episode"] # "missing")
            => (/\ state' = "Complete"
                /\ skipped'
                /\ rs_pc' = "idle"
                /\ running' = {}
                /\ attempts' = [s \in Services |-> 0])]_vars
    /\ [](skipped => (state = "Complete" /\ TotalAttempts = 0
                       /\ rs_pc = "idle" /\ running = {}))
C1_Witness == skipped /\ state = "Complete" /\ runs = 2 /\ TotalAttempts = 0

\* C2: when run_service has returned success = false, the step in which
\* run_pipeline takes the result appends a failure record for that stage,
\* calls notify_failure with that stage and that error (which posts exactly
\* that message when the sink is enabled and reachable), ends in Failed; and
\* from Failed no further attempt is made until another run is invoked.
C2_ShortCircuit ==
    /\ [][(rs_pc = "returned" /\ ~result.success /\ rs_pc' # "returned")
            => LET msg == [kind |-> "failure", stage |-> service_name,
                           error |-> result.error, duration |-> 0]
               IN  /\ executions' = Append(executions,
                          [stage |-> service_name, status |-> "failure",
                           duration |-> result.duration,
                           error |-> result.error])
                   /\ notify_calls' = Append(notify_calls, msg)
                   /\ posted' \in {posted, Append(posted, msg)}
                   /\ state' = "Failed"]_vars
    /\ [][(state = "Failed" /\ runs' = runs)
            => (state' = "Failed" /\ attempts' = attempts
                /\ running' = {} /\ rs_pc' = "idle")]_vars
C2_Witness ==
    /\ state = "Failed"
    /\ attempts["writer"] = 3
    /\ attempts["publisher"] = 0
    /\ Len(RunLog) = 2
    /\ RunLog[2].stage = "writer" /\ RunLog[2].status = "failure"
    /\ Len(posted) > 0
    /\ posted[Len(posted)].stage = "writer"

\* C3: when run_service has returned success but an artifact of the stage is
\* missing or empty, the step in which run_pipeline takes the result ends in
\* Failed, the last record appended is a failure record of that stage and
\* notify_failure is called for that stage; and a stage is left as validated
\* only when all its artifacts exist and are non-empty.
C3_ValidationGate ==
    /\ [][(/\ rs_pc = "returned" /\ result.success /\ rs_pc' # "returned"
           /\ \E f \in ArtifactsOf(service_name) : files[f] # "nonempty")
            => (/\ state' = "Failed"
                /\ Len(executions') > Len(executions)
                /\ executions'[Len(executions')].stage = service_name
                /\ executions'[Len(executions')].status = "failure"
                /\ Len(notify_calls') = Len(notify_calls) + 1
                /\ notify_calls'[Len(notify_calls')].kind = "failure"
                /\ notify_calls'[Len(notify_calls')].stage = service_name)]_vars
    /\ [][(rs_pc = "returned" /\ rs_pc' # "returned" /\ state' # "Failed")
            => \A f \in ArtifactsOf(service_name) : files'[f] = "nonempty"]_vars
    /\ [][(state = "Failed" /\ runs' = runs) => attempts' = attempts]_vars
C3_Witness ==
    /\ state = "Failed"
    /\ attempts["publisher"] = 1
    /\ files["episode"] = "nonempty"
    /\ files["feed"] = "empty"
    /\ Len(RunLog) = 4
    /\ RunLog[3].stage = "publisher" /\ RunLog[3].status = "success"
    /\ RunLog[4].stage = "publisher" /\ RunLog[4].status = "failure"

\* C4: at most one stage process is in flight at any time; an attempt of the
\* writer (publisher) is started only in a run whose log has a success record
\* and no failure record of the collector (writer) and while the artifact of
\* that earlier stage is non-empty; and no stage is attempted before the
\* stages that precede it.
C4_StageOrder ==
    /\ [](Cardinality(running) <= 1)
    /\ [](attempts["publisher"] > 0 => attempts["writer"] > 0)
    /\ [](attempts["writer"] > 0 => attempts["collector"] > 0)
    /\ [][\A svc \in {"writer", "publisher"} :
            attempts'[svc] > attempts[svc]
              => (/\ HasRecord(RunLog, Predecessor(svc), "success")
                  /\ ~HasRecord(RunLog, Predecessor(svc), "failure")
                  /\ \A f \in ArtifactsOf(Predecessor(svc)) :
                        files[f] = "nonempty"
                  /\ running = {}
                  /\ running' = {svc})]_vars
C4_Witness ==
    /\ running = {"publisher"}
    /\ attempts["collector"] = 2
    /\ attempts["writer"] = 2
    /\ attempts["publisher"] = 1

\* C5 as stated: whenever a run is Complete, by the stages or by the entry
\* guard, the last record of the log is the pipeline success record of this
\* run with the elapsed time, and notify_success was called.
C5_CompleteAlwaysLogged ==
    state = "Complete"
      => (/\ Len(RunLog) > 0
          /\ RunLog[Len(RunLog)] = [stage |-> "pipeline", status |-> "success",
                                    duration |-> now - pipeline_start,
                                    error |-> "None"]
          /\ Len(RunNotes) = 1
          /\ RunNotes[1].kind = "success")

\* C5 amended: a run that is Complete after its three stages has appended
\* exactly one pipeline success record, the last of the run, carrying the
\* elapsed time, and has called notify_success once with that duration; a run
\* that is Complete by the entry guard has appended no record and called no
\* notification.
C5_CompleteLogged ==
    /\ (state = "Complete" /\ ~skipped)
         => (/\ Len(RunLog) = 4
             /\ RunLog[4] = [stage |-> "pipeline", status |-> "success",
                             duration |-> now - pipeline_start,
                             error |-> "None"]
             /\ \A k \in 1..3 : RunLog[k].stage # "pipeline"
             /\ RunNotes = <<[kind |-> "success", stage |-> "pipeline",
                              error |-> "None",
                              duration |-> now - pipeline_start]>>)
    /\ (state = "Complete" /\ skipped)
         => (RunLog = <<>> /\ RunNotes = <<>>)
C5_Witness ==
    /\ state = "Complete" /\ ~skipped
    /\ Len(RunLog) = 4
    /\ RunLog[4].stage = "pipeline"
    /\ RunLog[4].duration > 3

\* C6: when run_service returns success, the number of subprocess calls it
\* made is the number of failed attempts plus one, within max_retries; when
\* it returns failure, every one of its max_retries attempts failed and no
\* other attempt was made.
C6_AttemptCount ==
    rs_pc = "returned"
      => IF result.success
         THEN /\ attempts[service_name] = failures + 1
              /\ failures + 1 <= max_retries
         ELSE /\ attempts[service_name] = max_retries
              /\ failures = max_retries
C6_Witness ==
    /\ rs_pc = "returned"
    /\ result.success
    /\ failures = 2
    /\ attempts[service_name] = 3
    /\ max_retries = 3

C8_Termination ==
    /\ [](\A s \in Services : attempts[s] <= max_retries)
    /\ [](TotalAttempts <= 3 * max_retries)
    /\ (InRun ~> state \in {"Complete", "Failed"})
C8_Witness ==
    /\ state = "Failed"
    /\ attempts["collector"] = 1
    /\ attempts["writer"] = 1
    /\ attempts["publisher"] = 3

\* The rss_seen records of the identity u.
RecordsOf(u) == { r \in rss_seen : r.url = u }
\* The latest fetch call reported nothing new.
ZeroNew ==
    IF last_fetch.fetcher = "reviews"
    THEN \/ fetch_result.none
         \/ fetch_result.new_positive + fetch_result.new_negative = 0
    ELSE IF last_fetch.fetcher = "discussions"
    THEN \/ fetch_result.none
         \/ fetch_result.new_count = 0 /\ fetch_result.discussions = <<>>
    ELSE fetch_result.items = <<>>

\* C9: once mark_rss_item_seen has been called twice or more for an identity,
\* whatever the titles and sources of the calls, the identity is not new any
\* more, rss_seen holds exactly one record for it, the record carries the
\* title, the source and the first_seen of the first call, and the latest
\* call raised no error.
C9_IdempotentMark ==
    /\ ~db_error
    /\ \A u \in Urls :
         mark_count[u] = 2 =>
           /\ Cardinality(RecordsOf(u)) = 1
           /\ \A r \in RecordsOf(u) :
                /\ r.title = first_mark[u].title
                /\ r.source = first_mark[u].source
                /\ r.first_seen = first_mark[u].first_seen
\* a second call with another title and another source, at a later time
C9_Witness ==
    /\ program = "db"
    /\ last_mark.url \in Urls
    /\ mark_count[last_mark.url] = 2
    /\ last_mark.title # first_mark[last_mark.url].title
    /\ last_mark.source # first_mark[last_mark.url].source
    /\ last_mark.first_seen > first_mark[last_mark.url].first_seen
    /\ Cardinality(RecordsOf(last_mark.url)) = 1

MonitorResult ==
    /\ last_fetch.fetcher \in {"reviews", "discussions"}
    /\ ~fetch_result.none
\* The snapshot of the latest call holds an item that carries an identity.
HasIdentified ==
    \E k \in DOMAIN last_fetch.snapshot : last_fetch.snapshot[k].id # NoId

Snapshot == last_fetch.snapshot
IdentityAt(k) ==
    IF last_fetch.fetcher = "rss" THEN Snapshot[k].link ELSE Snapshot[k].id
\* The positions of the snapshot items that carry an identity which was not
\* in the store when the call began.
NewPositions ==
    { k \in DOMAIN Snapshot :
        IdentityAt(k) # NoId /\ IdentityAt(k) \notin prior_ids }
NewIdentities == { IdentityAt(k) : k \in NewPositions }
NoDuplicates ==
    \A j, k \in DOMAIN Snapshot : IdentityAt(j) = IdentityAt(k) => j = k
\* The identities the fetcher's table holds now.
StoredIds ==
    IF last_fetch.fetcher = "reviews" THEN { r.id : r \in reviews }
    ELSE IF last_fetch.fetcher = "discussions"
    THEN { r.id : r \in discussions }
    ELSE { r.url : r \in rss_seen }
\* The number of items the latest call reported as new.
ReportedNew ==
    IF last_fetch.fetcher = "reviews"
    THEN fetch_result.new_positive + fetch_result.new_negative
    ELSE IF last_fetch.fetcher = "discussions" THEN fetch_result.new_count
    ELSE Len(fetch_result.items)
Fetched == last_fetch.fetcher # "none" /\ last_fetch.ok /\ ~fetch_result.none

PersistedPositions ==
    { k \in NewPositions : IdentityAt(k) \notin insert_faults }

\* The items of the batch after a failed one are stored.
RemainingInserted ==
    StoredIds = prior_ids \cup { IdentityAt(k) : k \in PersistedPositions }

\* C13: when the insert of an item of a batch fails in insert_reviews or
\* insert_discussions, the other new items of the batch are still stored, and
\* the number of new items the fetcher reports counts only the items that
\* were stored (for discussions: the stored ones that are not pinned).
C13_CountsOnlyPersisted ==
    (Fetched /\ last_fetch.fetcher \in {"reviews", "discussions"}) =>
        /\ RemainingInserted
        /\ ReportedNew =
             IF last_fetch.fetcher = "reviews"
             THEN Cardinality(PersistedPositions)
             ELSE Cardinality({ k \in PersistedPositions : ~Snapshot[k].flag })

\* The ranking calculate_rank_changes compared with: that of the latest date
\* of previous_in; no ranking when previous_in is empty.
ComparedWith ==
    IF DOMAIN previous_in = {} THEN <<>>
    ELSE previous_in[CHOOSE d \in DOMAIN previous_in :
                        \A e \in DOMAIN previous_in : e <= d]
\* The rank_change of game against the ranking previous.
ExpectedChange(game, previous) ==
    IF game.appid \in DOMAIN previous
    THEN [none |-> FALSE, value |-> previous[game.appid].rank - game.rank]
    ELSE [none |-> TRUE, value |-> 0]

\* C14: calculate_rank_changes returns the items of current in their order,
\* each with rank_change = previous_rank - current_rank when the item is in
\* previous, and with rank_change null (not 0) when it is not or when there is
\* no previous data at all.
C14_RankChange ==
    computed =>
        /\ Len(top_sellers) = Len(current_in)
        /\ \A k \in DOMAIN current_in :
             /\ top_sellers[k].appid = current_in[k].appid
             /\ top_sellers[k].rank = current_in[k].rank
             /\ top_sellers[k].rank_change =
                  ExpectedChange(current_in[k], ComparedWith)
\* current [{5, rank 1}, {7, rank 2}] against previous {5: rank 3}
C14_Witness ==
    /\ program = "deltas"
    /\ computed
    /\ Len(current_in) = 2
    /\ current_in[1].appid = 5 /\ current_in[1].rank = 1
    /\ current_in[2].appid = 7 /\ current_in[2].rank = 2
    /\ DOMAIN previous_in = {1}
    /\ DOMAIN previous_in[1] = {5}
    /\ previous_in[1][5].rank = 3
    /\ top_sellers[1].rank_change = [none |-> FALSE, value |-> 2]
    /\ top_sellers[2].rank_change = [none |-> TRUE, value |-> 0]

\* The dates stored before the latest collector run that lie before its day.
EarlierDates == { d \in run_info.dates : d < run_info.day }
\* The ranking of the most recent of them; no ranking when there is none.
RankingBeforeToday ==
    IF EarlierDates = {} THEN <<>>
    ELSE previous_in[CHOOSE d \in EarlierDates :
                        \A e \in EarlierDates : e <= d]

\* C15: in every collector run the rank changes of today's ranking are taken
\* against the ranking of the most recent stored date strictly before today
\* (against nothing when there is no such date), also when today's rankings
\* were already stored by an earlier run of the same day.
C15_PreviousIsBeforeToday ==
    (program = "rankings" /\ computed) =>
        \A k \in DOMAIN top_sellers :
            top_sellers[k].rank_change =
                ExpectedChange(current_in[k], RankingBeforeToday)

\* The last fire time the latest gate call could know: last_summary_time if
\* set, else the value get_metadata returned, if any.
LastFire ==
    IF gate.memory # NoTime THEN gate.memory
    ELSE IF gate.read = NoValue THEN NoTime
    ELSE CHOOSE t \in 0..(MaxCycles * MaxCheck * SecondsPerHour) :
             Str(t) = gate.read

\* C16: with the summary enabled and the key present, the force flag makes
\* should_generate_summary return true in the first cycle of the process and
\* in no other; the flag is false from the end of the first cycle on.
C16_ForceOnce ==
    /\ forced_cycles \subseteq {1}
    /\ (cycle >= 1 /\ enable_ai_summary /\ openai_api_key)
         => forced_cycles = {1}
    /\ cycle >= 1 => ~first_loop_iteration
    /\ cycle = 0 => first_loop_iteration
    /\ (cycle >= 1 /\ gate.forced) => (gate.flag /\ gate.ret /\ cycle = 1)
\* a later cycle, decided by the elapsed time and not by the flag
C16_Witness ==
    /\ cycle = 3
    /\ forced_cycles = {1}
    /\ enable_ai_summary /\ openai_api_key
    /\ ~gate.forced
    /\ ~gate.ret

\* C17: should_generate_summary returns false when the summary is disabled or
\* the key is absent, whatever the force flag; with the flag cleared it
\* returns true when the last fire time is unknown (not in last_summary_time
\* and not obtained from metadata) and otherwise returns true if and only if
\* now - lastFireTime >= the interval.
C17_GateDecision ==
    cycle >= 1 =>
        /\ (~enable_ai_summary \/ ~openai_api_key) => ~gate.ret
        /\ (enable_ai_summary /\ openai_api_key /\ ~gate.flag) =>
             IF LastFire = NoTime THEN gate.ret
             ELSE gate.ret =
                    (gate.now - LastFire >= interval_hours * 3600)
\* the interval has elapsed exactly: the gate fires
C17_Witness ==
    /\ cycle >= 2
    /\ enable_ai_summary /\ openai_api_key
    /\ ~gate.flag
    /\ LastFire # NoTime
    /\ interval_hours > 0
    /\ gate.now - LastFire = interval_hours * 3600
    /\ gate.ret

\* C18: when fetch_and_generate_summary produces no summary in the cycle in
\* which the force flag made the gate true, should_generate_summary returns
\* true again in the next cycle.
C18_ForceSurvivesFailure ==
    (cycle = 2 /\ forced_cycles = {1} /\ force_failed) => gate.ret

\* C19: when a cycle has produced a summary at time t, metadata holds t under
\* last_summary_timestamp before the next call of should_generate_summary,
\* and whenever last_summary_time is set it equals the stored value.
C19_FireTimePersisted ==
    /\ summary_at # NoTime => metadata = Str(summary_at)
    /\ last_summary_time # NoTime => metadata = Str(last_summary_time)

\* run_pipeline is not executing: it was never called, or its latest call
\* has ended.
Returned ==
    state \notin { RunningState(i) : i \in DOMAIN Stages }
                   \cup { ValidatedState(i) : i \in DOMAIN Stages }

\* C20: a failure of a stage, of a store operation (log_execution included)
\* or of a notification is turned into a result: every call of run_pipeline
\* that has ended has ended in Complete or Failed, not by an exception.
C20_NoUncaughtAbort ==
    (Returned /\ runs > 0) => state \in {"Complete", "Failed"}

\* C21: a notification whose delivery fails leaves the run as it is without
\* it: every call of notify_success goes with a run that ends Complete and
\* has logged the pipeline record, every call of notify_failure with a run
\* that ends Failed and has logged the failure of the stage, whether or not
\* the message was posted; a sink that is disabled or not configured is never
\* posted to.
C21_FireAndForget ==
    /\ [](~notify_enabled => posted = <<>>)
    /\ [][notify_calls' # notify_calls
            => LET msg == notify_calls'[Len(notify_calls')]
               IN  /\ notify_calls' = Append(notify_calls, msg)
                   /\ posted' \in {posted, Append(posted, msg)}
                   /\ state' = IF msg.kind = "success" THEN "Complete"
                               ELSE "Failed"
                   /\ Len(executions') > Len(executions)
                   /\ executions'[Len(executions')].status = msg.kind
                   /\ executions'[Len(executions')].stage = msg.stage]_vars
\* a failed run whose notification was called for and not delivered
C21_Witness ==
    /\ state = "Failed"
    /\ notify_enabled
    /\ Len(RunNotes) = 1
    /\ RunNotes[1].kind = "failure"
    /\ posted = <<>>
    /\ Len(RunLog) > 0
    /\ RunLog[Len(RunLog)].status = "failure"

\* the rows the store holds for one date and one appid
RowsOf(table, d, a) == { r \in table : r.date = d /\ r.appid = a }
\* the positions of a stored list that write the appid
WritesOf(games, a) == { k \in DOMAIN games : games[k].appid = a }
\* C22: the store holds at most one row per (date, appid); a call of
\* store_steam_rankings leaves for every appid it writes the row with the name
\* and the rank of its last write for that appid under the date of the call,
\* and leaves every other (date, appid) as it was.
C22_LastWriterWins ==
    /\ [](\A r, q \in steam_rankings :
              r.date = q.date /\ r.appid = q.appid => r = q)
    /\ [][program = "ranking_store"
            => \A d \in DeltaDates, a \in AppIds :
                 IF d = run_info'.day /\ WritesOf(top_sellers', a) # {}
                 THEN LET last == top_sellers'[MaxOf(WritesOf(top_sellers', a))]
                      IN  /\ RowsOf(steam_rankings', d, a) # {}
                          /\ \A r \in RowsOf(steam_rankings', d, a) :
                                 r.name = last.name /\ r.rank = last.rank
                 ELSE RowsOf(steam_rankings', d, a)
                          = RowsOf(steam_rankings, d, a)]_vars
\* a call for a date that already had rows has written a game twice, under
\* two names: the row carries the second name and the second rank
C22_Witness ==
    /\ program = "ranking_store"
    /\ run_info.day \in run_info.dates
    /\ Len(top_sellers) = 2
    /\ top_sellers[1].appid = top_sellers[2].appid
    /\ top_sellers[1].name # top_sellers[2].name
    /\ \E r \in steam_rankings :
          /\ r.date = run_info.day
          /\ r.appid = top_sellers[2].appid
          /\ r.name = top_sellers[2].name
          /\ r.rank = 2
    /\ \E r \in steam_rankings : r.date # run_info.day

\* C23: after a run of the collector has stored the ranking of its day, no
\* two rows of that date share a rank, also when another ranking was stored
\* for the date earlier that day.
C23_UniqueRanks ==
    (program = "rankings" /\ computed)
        => \A r, q \in steam_rankings :
              (r.date = run_info.day /\ q.date = run_info.day
                  /\ r.rank = q.rank) => r = q

\* C24: the execution log is append-only: every step of run_pipeline and of
\* run_service leaves the records already in the log as they are, in their
\* order, and at most adds records after them, whatever the outcome of the
\* run.
C24_AppendOnly ==
    [][/\ Len(executions') >= Len(executions)
       /\ SubSeq(executions', 1, Len(executions)) = executions]_vars
\* a failed run that has logged the success of one stage and then the
\* failure of another
C24_Witness ==
    /\ state = "Failed"
    /\ Len(RunLog) >= 2
    /\ RunLog[1].status = "success"
    /\ RunLog[Len(RunLog)].status = "failure"
    /\ RunLog[Len(RunLog)].stage # RunLog[1].stage

\* C25: whenever run_pipeline returns at its entry guard because today's
\* episode exists, an earlier run of the day has reached Complete (its
\* pipeline record is in the log): a run that ended in Failed does not make
\* the next run of the day skip.
C25_SkipOnlyAfterComplete ==
    [][(runs' = runs + 1 /\ skipped')
          => /\ state # "Failed"
             /\ \E k \in DOMAIN executions :
                   /\ executions[k].stage = "pipeline"
                   /\ executions[k].status = "success"]_vars

\* C27: the records one run of the pipeline has logged never hold a success
\* record and a failure record of the same stage; a run that ended in Failed
\* has no success record of the stage whose failure it logged.
C27_ConsistentStageLog ==
    /\ \A i, j \in DOMAIN RunLog :
          RunLog[i].stage = RunLog[j].stage
              => RunLog[i].status = RunLog[j].status
    /\ state = "Failed"
          => \A i, j \in DOMAIN RunLog :
                (RunLog[j].status = "failure" /\ RunLog[i].status = "success")
                    => RunLog[i].stage # RunLog[j].stage

\* C28: for every snapshot, also one that holds an identity more than once,
\* the number of new reviews fetch_and_process_reviews reports
\* (new_positive + new_negative) is the number of rows the call added to the
\* reviews table.
C28_ReportedEqualsStored ==
    (last_fetch.fetcher = "reviews" /\ Fetched)
        => fetch_result.new_positive + fetch_result.new_negative
              = Cardinality({ r.id : r \in reviews } \ prior_ids)

\* the URLs rss_seen holds
SeenUrls == { r.url : r \in rss_seen }
\* C26: after a run of the collector that exited 0, every URL recorded in
\* rss_seen has been written into a signals.json of that run or of an earlier
\* one, also when an earlier run marked it and failed before it wrote the
\* bundle.
C26_SeenIsDelivered ==
    (program = "delivery" /\ run_at # NoTime /\ bundle.ok)
        => SeenUrls \subseteq bundled

\* C29 as stated: a URL that fetch_rss_feed has returned as new is not
\* returned as new by a later run of the collector unless a feed in between
\* lacked it.
C29_NewAtMostOnce ==
    program = "runs"
        => \A u \in Urls : regap[u] # NoTime => u \in absent
\* C29 as amended: a URL that fetch_rss_feed has returned as new is not
\* returned as new again by a run that starts at most DaysToKeep (30) days
\* after the run that returned it; a run that starts later has deleted its
\* record in cleanup_old_data and returns it as new again when the feed still
\* holds it.
C29_NewOncePerRetention ==
    program = "runs"
        => /\ \A u \in Urls : regap[u] # NoTime => regap[u] > DaysToKeep
           /\ \A u \in Urls :
                 (/\ run_at = clock
                  /\ last_fetch.ok
                  /\ \E k \in DOMAIN last_fetch.snapshot :
                        last_fetch.snapshot[k].link = u)
                     => /\ reported_at[u] # NoTime
                        /\ clock - reported_at[u] <= DaysToKeep
\* a run that starts exactly DaysToKeep days after the one that returned the
\* URL finds it in the feed and does not return it
C29_Witness ==
    /\ program = "runs"
    /\ run_at = clock
    /\ \E u \in Urls :
          /\ reported_at[u] # NoTime
          /\ clock - reported_at[u] = DaysToKeep
          /\ u \notin absent
          /\ \E k \in DOMAIN last_fetch.snapshot :
                last_fetch.snapshot[k].link = u
          /\ \A k \in DOMAIN fetch_result.items :
                fetch_result.items[k].url # u

\* C30: when two processes have run fetch_rss_feed on the same feed, under
\* any interleaving of their checks and marks, rss_seen holds exactly one
\* record for every URL of the feed and no URL was returned as new by both.
FetchersDone ==
    /\ program = "fetchers"
    /\ \A p \in Procs :
          ~fetchers[p].marking /\ fetchers[p].k > Len(Take(feed, MaxItems))
ReturnedBy(p) == { fetchers[p].items[k] : k \in DOMAIN fetchers[p].items }
C30_OneRecordOneReport ==
    FetchersDone
        => \A k \in DOMAIN feed :
              feed[k].link # NoId
                  => /\ Cardinality({ r \in rss_seen :
                                        r.url = feed[k].link }) = 1
                     /\ \A p, q \in Procs :
                           (p # q /\ feed[k].link \in ReturnedBy(p))
                               => feed[k].link \notin ReturnedBy(q)

====
